---- MODULE Spec2Model ----
(***************************************************************************)
(* Model of the shadow-engine prototype (engine_core.py, service_cli.py,   *)
(* engine_server.py): height resolution, building-record normalisation,   *)
(* area coverage, grid sampling, the request pipeline of the CLI and of    *)
(* the HTTP server, and the server's process pool.                         *)
(*                                                                         *)
(* Conventions.                                                            *)
(*  - A Python float is an exact rational <<num, den>> (den > 0, lowest    *)
(*    terms) where the code divides, and an integer where it does not.     *)
(*    Heights are integers in tenths of a metre, so that 3.5 m per level   *)
(*    is exact.                                                            *)
(*  - A Python value of an untrusted attribute is a tagged record:         *)
(*    [t |-> "none"], [t |-> "num", v |-> n], [t |-> "str", s |-> chars],  *)
(*    [t |-> "list"], [t |-> "nan"], [t |-> "float", tenths |-> n].        *)
(*    A key that is absent from a dict is absent from the function.        *)
(*  - A planar geometry is the set of unit cells <<x, y>> it covers on an  *)
(*    integer lon/lat lattice; the empty set is the empty geometry.        *)
(***************************************************************************)
EXTENDS Integers, Sequences, FiniteSets, TLC

(***************************************************************************)
(* Bounds of the model.                                                    *)
(***************************************************************************)
\* attribute numbers range over 0..MaxNum
MaxNum == 2
\* a fetched feature list has at most MaxFeatures members
MaxFeatures == 2
\* longitudes and latitudes range over 0..MaxCoord
MaxCoord == 2
\* the server receives at most MaxRequests requests
MaxRequests == 3

(***************************************************************************)
(* Arithmetic helpers.                                                     *)
(***************************************************************************)
Min(a, b) == IF a <= b THEN a ELSE b

Max(a, b) == IF a >= b THEN a ELSE b

Abs(a) == IF a < 0 THEN -a ELSE a

RECURSIVE GCD(_, _)
GCD(a, b) == IF b = 0 THEN a ELSE GCD(b, a % b)

\* In the definitions below an argument that is used more than once is
\* bound through a singleton set, {e(x) : x \in {arg}}, which has the value
\* e(arg) as its only element and lets TLC evaluate arg once.

\* the float n / d (d > 0), in lowest terms
Rat(n, d) ==
    CHOOSE r \in {IF g = 0 THEN <<0, 1>> ELSE <<x \div g, y \div g>> :
                     <<x, y, g>> \in {<<n, d, GCD(Abs(n), d)>>}} : TRUE

RatLE(p, q) == p[1] * q[2] <= q[1] * p[2]

RatMin(p, q) ==
    CHOOSE r \in {IF RatLE(x, y) THEN x ELSE y : x \in {p}, y \in {q}} : TRUE

RatMax(p, q) ==
    CHOOSE r \in {IF RatLE(x, y) THEN y ELSE x : x \in {p}, y \in {q}} : TRUE

(***************************************************************************)
(* Python values of untrusted attributes.                                  *)
(***************************************************************************)
None == [t |-> "none"]

NaN == [t |-> "nan"]

Num(n) == [t |-> "num", v |-> n]

Str(s) == [t |-> "str", s |-> s]

Float(tenths) == [t |-> "float", tenths |-> tenths]

Digits == <<"0", "1", "2", "3", "4", "5", "6", "7", "8", "9">>

IsDigit(c) == \E i \in 1..10 : Digits[i] = c

DigitValue(c) == (CHOOSE i \in 1..10 : Digits[i] = c) - 1

RECURSIVE DecimalValue(_)
DecimalValue(s) ==
    IF s = <<>> THEN 0
    ELSE 10 * DecimalValue(SubSeq(s, 1, Len(s) - 1)) + DigitValue(s[Len(s)])

\* float(value) raises TypeError or ValueError: None and containers are not
\* numbers, and a string must be a decimal digit string
ParseFails(value) ==
    CASE value.t = "num" -> FALSE
      [] value.t = "float" -> FALSE
      [] value.t = "str" ->
            ~(value.s # <<>> /\ \A i \in 1..Len(value.s) : IsDigit(value.s[i]))
      [] OTHER -> TRUE

\* float(value) where it does not raise, in tenths
ParseFloat(value) ==
    CASE value.t = "num" -> 10 * value.v
      [] value.t = "float" -> value.tenths
      [] value.t = "str" -> 10 * DecimalValue(value.s)

(***************************************************************************)
(* engine_core.extract_height                                              *)
(***************************************************************************)
HEIGHT_KEYS == <<"height", "HEIGHT", "height_mean", "levels">>

\* metres per level, in tenths
LEVEL_FACTOR == 35

\* the height of a building without any usable attribute, in tenths
DEFAULT_HEIGHT == 120

\* properties.get(key): None when the key is absent
Get(properties, key) ==
    IF key \in DOMAIN properties THEN properties[key] ELSE None

\* mutant: a value float() rejects counts as zero instead of being skipped
RECURSIVE extract_height_zero_from(_, _)
extract_height_zero_from(properties, i) ==
    IF i > Len(HEIGHT_KEYS) THEN DEFAULT_HEIGHT
    ELSE LET key == HEIGHT_KEYS[i]
             value == Get(properties, key)
         IN  IF value = None THEN extract_height_zero_from(properties, i + 1)
             ELSE IF ParseFails(value) THEN 0
             ELSE IF key = "levels" THEN (ParseFloat(value) * LEVEL_FACTOR) \div 10
             ELSE ParseFloat(value)

\* the loop of extract_height from its i-th key on; the result in tenths
RECURSIVE extract_height_from(_, _)
extract_height_from(properties, i) ==
    IF i > Len(HEIGHT_KEYS) THEN DEFAULT_HEIGHT
    ELSE LET key == HEIGHT_KEYS[i]
             value == Get(properties, key)
         IN  IF value = None THEN extract_height_from(properties, i + 1)
             ELSE IF ParseFails(value) THEN extract_height_from(properties, i + 1)
             ELSE IF key = "levels" THEN (ParseFloat(value) * LEVEL_FACTOR) \div 10
             ELSE ParseFloat(value)

extract_height_zero(properties) == extract_height_zero_from(properties, 1)

extract_height(properties) == extract_height_from(properties, 1)

(***************************************************************************)
(* GeoJSON geometry and its shapely counterpart.  A GeoJSON geometry is    *)
(* [type |-> ..., coordinates |-> <<part, ...>>], each part a set of       *)
(* cells; shape() gives [geom_type |-> ..., parts |-> <<part, ...>>].      *)
(***************************************************************************)
Cells == (0..(MaxCoord - 1)) \X (0..(MaxCoord - 1))

GEOMETRY_TYPES == {"Polygon", "MultiPolygon", "Point"}

\* shapely.geometry.shape raises on a mapping that is no geometry
ShapeFails(geom) ==
    \/ "type" \notin DOMAIN geom
    \/ geom.type \notin GEOMETRY_TYPES
    \/ "coordinates" \notin DOMAIN geom

shape(geom) == [geom_type |-> geom.type, parts |-> geom.coordinates]

\* the cells a geometry covers (a Point lies inside its one cell)
GeomCells(g) == UNION {g.parts[i] : i \in 1..Len(g.parts)}

is_empty(g) == GeomCells(g) = {}

\* two closed cells share a point when they are equal or neighbours
Touch(c, d) == Abs(c[1] - d[1]) <= 1 /\ Abs(c[2] - d[2]) <= 1

\* shapely intersects: boundary contact counts between areal geometries; a
\* Point strictly inside a cell meets only what covers that cell
intersects(a, b) ==
    IF a.geom_type = "Point" \/ b.geom_type = "Point"
    THEN GeomCells(a) \cap GeomCells(b) # {}
    ELSE \E c \in GeomCells(a), d \in GeomCells(b) : Touch(c, d)

(***************************************************************************)
(* engine_core.features_to_gdf, preprocess_buildings, filter_buildings.    *)
(* A GeoDataFrame is [columns |-> names, rows |-> <<row, ...>>], a row     *)
(* [geometry |-> g, attrs |-> [columns -> value], origin |-> props]; a     *)
(* cell of a column its record lacks is NaN.  origin is the attribute map  *)
(* of the feature the row came from (history, not read by the code).       *)
(***************************************************************************)
\* `not x` for a geometry entry: None and {} are falsy
Falsy(x) == x = None \/ DOMAIN x = {}

\* feature.get("properties") or {}
PropsOf(feature) ==
    IF "properties" \notin DOMAIN feature \/ Falsy(feature.properties)
    THEN <<>>
    ELSE feature.properties

\* dict.setdefault
SetDefault(d, key, value) ==
    IF key \in DOMAIN d THEN d
    ELSE [k \in DOMAIN d \cup {key} |-> IF k = key THEN value ELSE d[k]]

HasGeometry(feature) ==
    "geometry" \in DOMAIN feature /\ ~Falsy(feature.geometry)

features_to_gdf(features) ==
    LET kept == SelectSeq(features, HasGeometry)
        records == [i \in 1..Len(kept) |->
                       SetDefault(PropsOf(kept[i]), "height_m",
                                  Float(extract_height(PropsOf(kept[i]))))]
        columns == UNION {DOMAIN records[i] : i \in 1..Len(kept)}
    IN  [columns |-> columns,
         rows |-> [i \in 1..Len(kept) |->
                     [geometry |-> shape(kept[i].geometry),
                      attrs |-> [c \in columns |->
                                    IF c \in DOMAIN records[i]
                                    THEN records[i][c] ELSE NaN],
                      origin |-> PropsOf(kept[i])]]]

\* DataFrame.empty
empty(gdf) == Len(gdf.rows) = 0

\* buildings[column] = value of each row
WithColumn(gdf, column, value(_)) ==
    [columns |-> gdf.columns \cup {column},
     rows |-> [i \in 1..Len(gdf.rows) |->
                 [gdf.rows[i] EXCEPT !.attrs =
                     [c \in gdf.columns \cup {column} |->
                         IF c = column THEN value(gdf.rows[i])
                         ELSE gdf.rows[i].attrs[c]]]]]

RECURSIVE Concat(_)
Concat(seqs) == IF seqs = <<>> THEN <<>> ELSE Head(seqs) \o Concat(Tail(seqs))

\* explode(index_parts=False, ignore_index=True): one row per part
explode(gdf) ==
    [columns |-> gdf.columns,
     rows |-> Concat([i \in 1..Len(gdf.rows) |->
                 LET row == gdf.rows[i]
                     g == row.geometry
                 IN  IF g.geom_type = "MultiPolygon"
                     THEN [j \in 1..Len(g.parts) |->
                              [row EXCEPT !.geometry =
                                  [geom_type |-> "Polygon",
                                   parts |-> <<g.parts[j]>>]]]
                     ELSE <<row>>])]

IsPolygonRow(row) == row.geometry.geom_type = "Polygon"

HeightM(row) == row.attrs["height_m"]

Height12(row) == Float(DEFAULT_HEIGHT)

\* lines 89-94: the height column the generator reads
with_height(buildings) ==
    IF "height" \in buildings.columns THEN buildings
    ELSE IF "height_m" \in buildings.columns
         THEN WithColumn(buildings, "height", HeightM)
         ELSE WithColumn(buildings, "height", Height12)

\* the frame preprocess_buildings hands to pybdshadow: to its bd_preprocess
\* when the library has one, else (exploded to single polygons) to
\* sunlight_shadow
preprocess_buildings(buildings, has_bd_preprocess) ==
    IF has_bd_preprocess THEN with_height(buildings)
    ELSE LET exploded == explode(with_height(buildings))
         IN  [exploded EXCEPT !.rows = SelectSeq(exploded.rows, IsPolygonRow)]

filter_buildings(buildings, geometry) ==
    IF geometry = None THEN buildings
    ELSE LET geom == shape(geometry)
             Hit(row) == intersects(row.geometry, geom)
         IN  IF is_empty(geom) THEN [buildings EXCEPT !.rows = <<>>]
             ELSE [buildings EXCEPT !.rows = SelectSeq(buildings.rows, Hit)]

(***************************************************************************)
(* engine_core.calculate_shadow_coverage.  A shadow frame is a             *)
(* GeoDataFrame whose rows carry the shadow polygons.  to_crs(3857) maps   *)
(* a lattice point to Web-Mercator metres: linear in longitude, growing    *)
(* faster than linearly with latitude.                                     *)
(***************************************************************************)
to_crs_x(lon) == 10 * lon

to_crs_y(lat) == lat * (lat + 10)

CellArea(c) ==
    (to_crs_x(c[1] + 1) - to_crs_x(c[1])) * (to_crs_y(c[2] + 1) - to_crs_y(c[2]))

\* GeoSeries([g]).to_crs(3857).area
RECURSIVE area_3857(_)
area_3857(cells) ==
    LET area(s) == IF s = {} THEN 0
                   ELSE LET c == CHOOSE c \in s : TRUE
                        IN  CellArea(c) + area_3857(s \ {c})
    IN  CHOOSE a \in {area(s) : s \in {cells}} : TRUE

\* shapely box(minx, miny, maxx, maxy): the rectangle through the four
\* corners, whichever way round they are given
box(minx, miny, maxx, maxy) ==
    (Min(minx, maxx)..(Max(minx, maxx) - 1)) \X (Min(miny, maxy)..(Max(miny, maxy) - 1))

\* unary_union(gdf.geometry)
unary_union(gdf) == UNION {GeomCells(gdf.rows[i].geometry) : i \in 1..Len(gdf.rows)}

calculate_shadow_coverage(bounds, shadows) ==
    LET stats(bbox_geom, bbox_area, union) ==
            LET clipped == union \cap bbox_geom
                shadow_area == area_3857(clipped)
                zero(area) == [bbox_area_sqm |-> area, shadow_area_sqm |-> 0,
                               coverage_percent |-> <<0, 1>>]
            IN  IF bbox_area <= 0 \/ empty(shadows) THEN zero(Max(bbox_area, 0))
                ELSE IF union = {} THEN zero(bbox_area)
                ELSE IF clipped = {} THEN zero(bbox_area)
                ELSE [bbox_area_sqm |-> bbox_area,
                      shadow_area_sqm |-> shadow_area,
                      coverage_percent |->
                          IF bbox_area = 0 THEN <<0, 1>>
                          ELSE RatMax(<<0, 1>>,
                                      RatMin(<<100, 1>>,
                                             Rat(shadow_area * 100, bbox_area)))]
    IN  CHOOSE r \in
            {stats(bbox_geom, area_3857(bbox_geom), unary_union(shadows)) :
                bbox_geom \in {box(bounds.west, bounds.south, bounds.east, bounds.north)}} :
            TRUE

(***************************************************************************)
(* service_cli.sample_points, analyse_samples, make_heatmap.  A point is   *)
(* <<lon, lat>>, each an exact rational.                                   *)
(***************************************************************************)
HOURS_SHADOW == 3

HOURS_SUN == 10

\* mutant: the grid size is used as passed
clamp_grid_none(grid) == grid

clamp_grid(grid) == Max(3, Min(grid, 25))

\* the k-th point of the grid, counted row by row
sample_point(bounds, grid, k) ==
    <<Rat(bounds.west * (grid + 1)
              + (bounds.east - bounds.west) * (((k - 1) \div grid) + 1),
          grid + 1),
      Rat(bounds.south * (grid + 1)
              + (bounds.north - bounds.south) * (((k - 1) % grid) + 1),
          grid + 1)>>

sample_points(bounds, grid0) ==
    LET points(bbox, grid) ==
            IF bbox.east - bbox.west <= 0 \/ bbox.north - bbox.south <= 0 THEN <<>>
            ELSE [k \in 1..(Max(grid, 0) * Max(grid, 0)) |-> sample_point(bbox, grid, k)]
    IN  CHOOSE r \in {points(bbox, grid) :
                         bbox \in {bounds}, grid \in {clamp_grid(grid0)}} : TRUE

\* the lattice columns (rows) whose closed cells hold coordinate x
Holding(x) ==
    IF x[2] = 1 THEN {x[1] - 1, x[1]} ELSE {x[1] \div x[2]}

\* shapely contains: the point lies in the interior of the union, so every
\* cell that holds it belongs to the union
contains(cells, point) ==
    (Holding(point[1]) \X Holding(point[2])) \subseteq cells

\* the loop body of analyse_samples, lines 128-143, for one point
sample_feature(union_geom, point) ==
    LET feature(in_shadow, hours) ==
            [coordinates |-> point,
             hoursOfSun |-> hours,
             shadowPercent |-> IF in_shadow THEN 85 ELSE 5,
             weight |-> RatMax(<<1, 10>>, RatMin(Rat(hours, HOURS_SUN), <<1, 1>>))]
    IN  CHOOSE f \in
            {feature(in_shadow, IF in_shadow THEN HOURS_SHADOW ELSE HOURS_SUN) :
                in_shadow \in {union_geom # {} /\ contains(union_geom, point)}} : TRUE

analyse_samples(shadow_gdf, bounds, grid) ==
    LET analysis(points, union_geom) ==
            LET count == Len(points)
                shadow_hits ==
                    Cardinality({k \in 1..count :
                        union_geom # {} /\ contains(union_geom, points[k])})
            IN  IF count = 0
                THEN [features |-> <<>>,
                      metrics |-> [sampleCount |-> 0, avgShadowPercent |-> <<0, 1>>,
                                   avgSunlightHours |-> <<0, 1>>]]
                ELSE [features |->
                          [k \in 1..count |-> sample_feature(union_geom, points[k])],
                      metrics |->
                          [sampleCount |-> count,
                           avgShadowPercent |-> Rat(shadow_hits * 100, count),
                           avgSunlightHours |->
                               Rat(shadow_hits * HOURS_SHADOW
                                       + (count - shadow_hits) * HOURS_SUN,
                                   count)]]
    IN  CHOOSE r \in
            {analysis(points, union_geom) :
                points \in {sample_points(bounds, grid)},
                union_geom \in {IF ~empty(shadow_gdf) THEN unary_union(shadow_gdf)
                                ELSE {}}} : TRUE

make_heatmap(features) ==
    CHOOSE heatmap \in
        {[k \in 1..Len(fs) |->
             [coordinates |-> fs[k].coordinates, intensity |-> fs[k].hoursOfSun]] :
            fs \in {features}} : TRUE

(***************************************************************************)
(* JSON payloads.  A JSON object is a function from its keys; a JSON       *)
(* scalar is a tagged Python value; text is [t |-> "text", text |-> s].    *)
(***************************************************************************)
Text(s) == [t |-> "text", text |-> s]

\* isinstance(value, dict)
IsDict(value) == "t" \notin DOMAIN value

\* bool(value)
Truthy(value) ==
    IF IsDict(value) THEN DOMAIN value # {}
    ELSE CASE value.t = "none" -> FALSE
           [] value.t = "num" -> value.v # 0
           [] value.t = "str" -> value.s # <<>>
           [] value.t = "text" -> value.text # ""
           [] OTHER -> TRUE

\* value.get("type")
TypeOf(value) == IF "type" \in DOMAIN value THEN value.type ELSE ""

(***************************************************************************)
(* service_cli.normalize_geometry_obj, validate_payload                    *)
(***************************************************************************)
IsFeature(value) == IsDict(value) /\ TypeOf(value) = "Feature"

IsFeatureCollection(value) == IsDict(value) /\ TypeOf(value) = "FeatureCollection"

IsRawGeometry(value) ==
    IsDict(value) /\ "type" \in DOMAIN value /\ "coordinates" \in DOMAIN value

\* the member geometries a FeatureCollection contributes
MemberGeometries(value) ==
    LET members == IF "features" \in DOMAIN value THEN value.features ELSE <<>>
        HasGeom(feature) == Truthy(Get(feature, "geometry"))
        kept == SelectSeq(members, HasGeom)
    IN  [i \in 1..Len(kept) |-> kept[i].geometry]

\* what normalize_geometry_obj raises: "" when it returns
normalize_geometry_error(value) ==
    IF value = None \/ IsFeature(value) THEN ""
    ELSE IF IsFeatureCollection(value)
         THEN IF \E i \in 1..Len(MemberGeometries(value)) :
                     ShapeFails(MemberGeometries(value)[i])
              THEN "ShapeError" ELSE ""
    ELSE IF IsRawGeometry(value) THEN ""
    ELSE "UnsupportedGeometry"

\* what normalize_geometry_obj returns; mapping(unary_union(...)) of a
\* FeatureCollection is one geometry over the cells of its members
normalize_geometry_obj(value) ==
    IF value = None THEN None
    ELSE IF IsFeature(value) THEN Get(value, "geometry")
    ELSE IF IsFeatureCollection(value)
         THEN LET geoms == MemberGeometries(value)
              IN  IF geoms = <<>> THEN None
                  ELSE [type |-> "MultiPolygon",
                        coordinates |->
                            <<UNION {GeomCells(shape(geoms[i])) : i \in 1..Len(geoms)}>>]
    ELSE value

\* x or default
Or(x, default) == IF Truthy(x) THEN x ELSE default

\* str.rstrip("/") on the URLs of the model, which end in at most one slash
rstrip_slash(url) == IF url = "http://backend:3500/" THEN "http://backend:3500" ELSE url

CLI_DEFAULT_MAX_FEATURES == 8000

CLI_DEFAULT_GRID == 6

DEFAULT_MAX_FEATURES == 8000

DEFAULT_GRID == 6

\* what validate_payload raises: "" when it returns
validate_payload_error(payload) ==
    IF Get(payload, "geometry") # None
    THEN normalize_geometry_error(payload["geometry"])
    ELSE ""

validate_payload(payload) ==
    [bbox |-> payload["bbox"],
     timestamp |-> payload["timestamp"].text,
     backend_url |-> Or(Get(payload, "backendUrl"), Text("http://localhost:3500")).text,
     timezone |-> Or(Get(payload, "timezone"), Text("Asia/Hong_Kong")).text,
     max_features |-> Or(Get(payload, "maxFeatures"), Num(CLI_DEFAULT_MAX_FEATURES)).v,
     geometry |-> IF Get(payload, "geometry") # None
                  THEN normalize_geometry_obj(payload["geometry"])
                  ELSE None]

\* main, line 180
cli_grid(payload) ==
    Or(Get(Or(Get(payload, "samples"), <<>>), "grid"), Num(CLI_DEFAULT_GRID)).v

\* main, line 205
cli_latency(payload) ==
    LET profiling == IF "profiling" \in DOMAIN payload THEN payload["profiling"] ELSE <<>>
    IN  IF "engineLatencyMs" \in DOMAIN profiling THEN profiling["engineLatencyMs"]
        ELSE Num(0)

(***************************************************************************)
(* engine_server.ShadowRequest and the parameters of _run_single           *)
(***************************************************************************)
\* pydantic rejects a geometry that is neither null nor an object (422)
ShadowRequest_error(payload) ==
    IF ~IsDict(Get(payload, "geometry")) /\ Get(payload, "geometry") # None
    THEN "ValidationError" ELSE ""

\* the parsed model: backendUrl is read from its alias backend_url
ShadowRequest(payload) ==
    [bbox |-> payload["bbox"],
     timestamp |-> payload["timestamp"].text,
     timezone |-> Get(payload, "timezone"),
     backendUrl |-> Get(payload, "backend_url"),
     maxFeatures |-> Get(payload, "maxFeatures"),
     geometry |-> Get(payload, "geometry"),
     samples |-> Get(payload, "samples")]

server_params(request) ==
    [bbox |-> request.bbox,
     timestamp |-> request.timestamp,
     backend_url |-> rstrip_slash(Or(request.backendUrl, Text("http://localhost:3500")).text),
     timezone |-> Or(request.timezone, Text("Asia/Hong_Kong")).text,
     max_features |-> Or(request.maxFeatures, Num(DEFAULT_MAX_FEATURES)).v,
     geometry |-> request.geometry]

\* _run_single, lines 88-89
server_grid(request) ==
    Or(IF Truthy(request.samples) THEN Get(request.samples, "grid") ELSE None,
       Num(DEFAULT_GRID)).v

(***************************************************************************)
(* The request pipeline: main (service_cli) and _run_single                *)
(* (engine_server) around engine_core.run_analysis.  A run is the local    *)
(* state of one request; it advances at the two calls it makes outside     *)
(* the process: the building source and the shadow generator.  The         *)
(* environment env is [api, bd_preprocess, version]: what the import of    *)
(* pybdshadow found.                                                       *)
(***************************************************************************)
NewRun(entry, payload) ==
    [entry |-> entry, payload |-> payload, pc |-> "start", error |-> "",
     params |-> None, fetch_calls |-> 0, generator_calls |-> 0,
     buildings |-> None, handed |-> None, shadows |-> None,
     coverage_stats |-> None, samples |-> None, response |-> None]

Failed(run, error) == [run EXCEPT !.pc = "failed", !.error = error]

\* main, lines 178-182, and _run_single, lines 75-84, up to the call of the
\* building source in run_analysis
begin(run) ==
    LET payload == run.payload
        error == IF run.entry = "cli" THEN validate_payload_error(payload)
                 ELSE ShadowRequest_error(payload)
        params == IF run.entry = "cli" THEN validate_payload(payload)
                  ELSE server_params(ShadowRequest(payload))
    IN  IF error # "" THEN Failed(run, error)
        ELSE [run EXCEPT !.pc = "fetching", !.params = params,
                         !.fetch_calls = @ + 1]

\* mutant: an empty building set goes on to the generator
no_buildings_unchecked(buildings_gdf) == FALSE

\* run_analysis, line 208
no_buildings(buildings_gdf) == empty(buildings_gdf)

\* fetch_buildings returns or raises (lines 42-47); run_analysis goes on to
\* the call of the generator in generate_shadows (lines 205-211, 112-135)
after_fetch(run, env, outcome) ==
    LET data == outcome.data
        features == IF "features" \in DOMAIN data THEN data["features"] ELSE <<>>
        buildings_gdf == features_to_gdf(features)
        geometry == run.params.geometry
        filtered == IF Truthy(geometry) THEN filter_buildings(buildings_gdf, geometry)
                    ELSE buildings_gdf
    IN  IF ~outcome.ok THEN Failed(run, "UpstreamFetchError")
        ELSE IF Truthy(geometry) /\ ShapeFails(geometry) THEN Failed(run, "ShapeError")
        ELSE IF no_buildings(filtered)
             THEN [Failed(run, "NoBuildings") EXCEPT !.buildings = filtered]
        ELSE IF env.api = "missing"
             THEN [Failed(run, "EngineUnavailable") EXCEPT !.buildings = filtered]
        ELSE [run EXCEPT !.pc = "generating",
                         !.buildings = filtered,
                         !.handed = preprocess_buildings(filtered, env.bd_preprocess),
                         !.generator_calls = @ + 1]

\* gdf.to_json(): one feature per row, NaN written as null
gdf_to_feature_collection(gdf) ==
    [i \in 1..Len(gdf.rows) |->
        [geometry |-> gdf.rows[i].geometry,
         properties |-> [c \in DOMAIN gdf.rows[i].attrs |->
                            IF gdf.rows[i].attrs[c] = NaN THEN None
                            ELSE gdf.rows[i].attrs[c]]]]

\* mutant: the grid ratio of the samples is reported
reported_percent_grid(samples, coverage_stats) == samples.metrics.avgShadowPercent

\* the percentage written over the samples' own (main, line 189; _run_single,
\* line 93) and into the response (lines 203 and 107)
reported_percent(samples, coverage_stats) == coverage_stats.coverage_percent

\* the response of main (lines 193-216) and of _run_single (lines 97-120)
build_response(run, env, request_id, coverage_stats, samples0) ==
    LET response(percent, samples, params) ==
            [requestId |-> request_id,
             data |-> [shadows |-> gdf_to_feature_collection(run.shadows),
                       sunlight |-> samples.features,
                       heatmap |-> make_heatmap(samples.features),
                       buildings |-> gdf_to_feature_collection(run.buildings)],
             metrics |-> [sampleCount |-> samples.metrics.sampleCount,
                          avgShadowPercent |-> percent,
                          avgSunlightHours |-> samples.metrics.avgSunlightHours,
                          engineLatencyMs |-> IF run.entry = "cli"
                                              THEN cli_latency(run.payload) ELSE Num(0),
                          engineVersion |-> env.version,
                          shadowAreaSqm |-> coverage_stats.shadow_area_sqm,
                          bboxAreaSqm |-> coverage_stats.bbox_area_sqm,
                          coverageSource |-> "area"],
             metadata |-> [timezone |-> params.timezone,
                           backendUrl |-> params.backend_url,
                           maxFeatures |-> params.max_features]]
    IN  CHOOSE r \in
            {response(percent,
                      [samples0 EXCEPT !.metrics.avgShadowPercent = percent],
                      run.params) :
                percent \in {reported_percent(samples0, coverage_stats)}} : TRUE

\* the generator returns shadows_gdf; main (lines 183-218) and _run_single
\* (lines 85-120) compute the analytics and the response
after_generate(run, env, shadows_gdf, request_id) ==
    LET grid == IF run.entry = "cli" THEN cli_grid(run.payload)
                ELSE server_grid(ShadowRequest(run.payload))
        finish(done, coverage_stats, samples0) ==
            [done EXCEPT !.response =
                build_response(done, env, request_id, coverage_stats, samples0)]
        analysed(coverage_stats, samples0) ==
            CHOOSE r \in
                {finish(done, coverage_stats, samples0) :
                    done \in {[run EXCEPT
                        !.pc = "done", !.shadows = shadows_gdf,
                        !.coverage_stats = coverage_stats,
                        !.samples =
                            [samples0 EXCEPT !.metrics.avgShadowPercent =
                                reported_percent(samples0, coverage_stats)]]}} : TRUE
    IN  CHOOSE r \in
            {analysed(coverage_stats, samples0) :
                coverage_stats \in {calculate_shadow_coverage(run.params.bbox, shadows_gdf)},
                samples0 \in {analyse_samples(shadows_gdf, run.params.bbox, grid)}} : TRUE

(***************************************************************************)
(* State.                                                                  *)
(***************************************************************************)
VARIABLES
    attrs_in,       \* extract_height: the attribute map passed in
    height_out,     \* extract_height: its result, once it has returned
    features_in,    \* features_to_gdf: the raw feature list passed in
    frame_out,      \* the frame handed to pybdshadow, once it has been
    bounds_in,      \* the bounding box passed to the analytics
    shadows_in,     \* the shadow frame passed to the analytics
    grid_in,        \* the grid size passed to analyse_samples
    coverage_out,   \* calculate_shadow_coverage: its result, once returned
    samples_out,    \* analyse_samples: its result, once returned
    env,            \* what the process found when it imported pybdshadow
    run,            \* the one request of a CLI or single-request server run
    twin,           \* the same request made at the other entry point
    requests,       \* server: each request's handler, future and response
    queue,          \* server: the pool's pending work items, oldest first
    workers,        \* server: what each worker process of the pool executes
    shutdown        \* server: whether shutdown_event has run

heightVars == <<attrs_in, height_out>>

recordVars == <<features_in, frame_out>>

analyticsVars == <<bounds_in, shadows_in, grid_in, coverage_out, samples_out>>

requestVars == <<env, run, twin>>

serverVars == <<requests, queue, workers, shutdown>>

vars == <<heightVars, recordVars, analyticsVars, requestVars, serverVars>>

IdleHeight == attrs_in = <<>> /\ height_out = [done |-> FALSE]

IdleRecords == features_in = <<>> /\ frame_out = [done |-> FALSE]

IdleAnalytics ==
    /\ bounds_in = <<>>
    /\ shadows_in = <<>>
    /\ grid_in = 0
    /\ coverage_out = [done |-> FALSE]
    /\ samples_out = [done |-> FALSE]

(***************************************************************************)
(* Calls of extract_height on every attribute map over its four keys.      *)
(***************************************************************************)
AttrValues ==
    {None, [t |-> "list"], Str(<<>>), Str(<<"a", "b", "c">>), Str(<<"1", "5">>)}
        \cup {Num(n) : n \in 0..MaxNum}

KeySet == {HEIGHT_KEYS[i] : i \in 1..Len(HEIGHT_KEYS)}

AttrMaps == UNION {[S -> AttrValues] : S \in SUBSET KeySet}

IdleRequest == run = <<>> /\ twin = <<>>

IdleServer == requests = <<>> /\ queue = <<>> /\ workers = <<>> /\ shutdown = FALSE

InitHeight ==
    /\ attrs_in \in AttrMaps
    /\ height_out = [done |-> FALSE]
    /\ IdleRecords /\ IdleAnalytics /\ IdleRequest /\ IdleServer /\ env = <<>>

CallExtractHeight ==
    /\ ~height_out.done
    /\ height_out' = [done |-> TRUE, value |-> extract_height(attrs_in)]
    /\ UNCHANGED <<attrs_in, recordVars, analyticsVars, requestVars, serverVars>>

NextHeight == CallExtractHeight

SpecHeight == InitHeight /\ [][NextHeight]_vars

(***************************************************************************)
(* Calls of features_to_gdf and preprocess_buildings on every feature list *)
(* of at most MaxFeatures members, as generate_shadows makes them.         *)
(***************************************************************************)
Polygon(cells) == [type |-> "Polygon", coordinates |-> <<cells>>]

FeatureGeometries ==
    {None,
     Polygon({<<0, 0>>}),
     [type |-> "MultiPolygon", coordinates |-> <<{<<0, 0>>}, {<<1, 1>>}>>],
     [type |-> "Point", coordinates |-> <<{<<1, 0>>}>>]}

\* attribute maps of fetched buildings: height absent, a number or text;
\* levels and height_m absent or a number
FeatureProps ==
    {p \in UNION {[S -> {Num(1), Num(2), Num(3), Str(<<"a", "b", "c">>)}] :
                     S \in SUBSET {"height", "levels", "height_m"}} :
        /\ "height" \in DOMAIN p => p["height"] \in {Num(1), Str(<<"a", "b", "c">>)}
        /\ "levels" \in DOMAIN p => p["levels"] = Num(2)
        /\ "height_m" \in DOMAIN p => p["height_m"] = Num(3)}

Features ==
    {[geometry |-> g, properties |-> p] : g \in FeatureGeometries, p \in FeatureProps}

FeatureLists == UNION {[1..n -> Features] : n \in 0..MaxFeatures}

InitRecords ==
    /\ features_in \in FeatureLists
    /\ frame_out = [done |-> FALSE]
    /\ IdleHeight /\ IdleAnalytics /\ IdleRequest /\ IdleServer /\ env = <<>>

HandToGenerator ==
    /\ ~frame_out.done
    /\ ~empty(features_to_gdf(features_in))
    /\ \E has_bd_preprocess \in BOOLEAN :
          frame_out' = [done |-> TRUE,
                     frame |-> preprocess_buildings(features_to_gdf(features_in),
                                                    has_bd_preprocess)]
    /\ UNCHANGED <<features_in, heightVars, analyticsVars, requestVars,
                   serverVars>>

NextRecords == HandToGenerator

SpecRecords == InitRecords /\ [][NextRecords]_vars

(***************************************************************************)
(* Calls of calculate_shadow_coverage and analyse_samples on every         *)
(* bounding box of the lattice, ordered or not, in the order main and      *)
(* _run_single make them.                                                  *)
(***************************************************************************)
BBoxes == [west : 0..MaxCoord, south : 0..MaxCoord,
           east : 0..MaxCoord, north : 0..MaxCoord]

ShadowRow(cells) ==
    [geometry |-> [geom_type |-> "Polygon", parts |-> <<cells>>], attrs |-> <<>>]

\* shadow polygons: nothing, one cell, the western column, everything
ShadowPolygons ==
    {{}, Cells, {c \in Cells : c[1] = 0}} \cup {{c} : c \in Cells}

\* shadow frames of no row, of one polygon, and of two distinct cells
ShadowFrames ==
    {[columns |-> {"geometry"}, rows |-> r] :
        r \in {<<>>} \cup {<<ShadowRow(p)>> : p \in ShadowPolygons}
               \cup {<<ShadowRow({cd[1]}), ShadowRow({cd[2]})>> :
                        cd \in {q \in Cells \X Cells : q[1] # q[2]}}}

GridInputs == {-1, 0, 1, 2, 3, 4, 24, 25, 26, 100}

InitAnalytics ==
    /\ bounds_in \in BBoxes
    /\ shadows_in \in ShadowFrames
    /\ grid_in \in GridInputs
    /\ coverage_out = [done |-> FALSE]
    /\ samples_out = [done |-> FALSE]
    /\ IdleHeight /\ IdleRecords /\ IdleRequest /\ IdleServer /\ env = <<>>

CallCoverage ==
    /\ ~coverage_out.done
    /\ coverage_out' = [done |-> TRUE,
                        stats |-> calculate_shadow_coverage(bounds_in, shadows_in)]
    /\ UNCHANGED <<bounds_in, shadows_in, grid_in, samples_out, heightVars, recordVars,
                   requestVars, serverVars>>

CallAnalyseSamples ==
    /\ coverage_out.done /\ ~samples_out.done
    /\ samples_out' = [done |-> TRUE,
                       result |-> analyse_samples(shadows_in, bounds_in, grid_in)]
    /\ UNCHANGED <<bounds_in, shadows_in, grid_in, coverage_out, heightVars, recordVars,
                   requestVars, serverVars>>

NextAnalytics == CallCoverage \/ CallAnalyseSamples

SpecAnalytics == InitAnalytics /\ [][NextAnalytics]_vars

(***************************************************************************)
(* One request through main or _run_single.                                *)
(***************************************************************************)
\* an ordered box, a one-cell box, a box of no width, an inverted box
RequestBBoxes ==
    {[west |-> 0, south |-> 0, east |-> MaxCoord, north |-> MaxCoord],
     [west |-> 0, south |-> 0, east |-> 1, north |-> 1],
     [west |-> 1, south |-> 0, east |-> 1, north |-> MaxCoord],
     [west |-> MaxCoord, south |-> 0, east |-> 0, north |-> MaxCoord]}

Feature(geometry) == [type |-> "Feature", geometry |-> geometry]

FeatureCollection(members) == [type |-> "FeatureCollection", features |-> members]

FarCell == <<MaxCoord - 1, MaxCoord - 1>>

\* the filter geometries that are accepted: null, a Feature, a FeatureCollection,
\* a raw geometry
SupportedGeometryPayloads ==
    {None,
     Feature(Polygon({<<0, 0>>})),
     Feature(None),
     FeatureCollection(<<>>),
     FeatureCollection(<<Feature(Polygon({<<0, 0>>})), Feature(Polygon({FarCell}))>>),
     Polygon({FarCell}),
     Polygon({})}

\* and payloads of no such shape: {}, an object without type, a geometry
\* without coordinates, a JSON string
UnsupportedGeometryPayloads ==
    {<<>>,
     [foo |-> Num(1)],
     [type |-> "Polygon"],
     Str(<<"a", "b", "c">>)}

GeometryFields ==
    {<<>>} \cup {[geometry |-> g] :
                    g \in SupportedGeometryPayloads \cup UnsupportedGeometryPayloads}

SampleFields == {<<>>, [samples |-> [grid |-> Num(0)]], [samples |-> [grid |-> Num(4)]]}

\* nothing explicit, or every parameter explicit with the backend URL under
\* the key the CLI reads or under the key the server reads, or an empty
\* timezone and a zero feature count
ExplicitFields ==
    {<<>>,
     [timezone |-> Text("UTC"), maxFeatures |-> Num(5),
      backendUrl |-> Text("http://backend:3500/")],
     [timezone |-> Text("UTC"), maxFeatures |-> Num(5),
      backend_url |-> Text("http://backend:3500/")],
     [timezone |-> Text(""), maxFeatures |-> Num(0)]}

Payloads ==
    {[bbox |-> b, timestamp |-> Text("2025-01-01T03:00:00")] @@ g @@ m @@ x :
        b \in RequestBBoxes, g \in GeometryFields, m \in SampleFields,
        x \in ExplicitFields}

\* pybdshadow with pybdshadow.shadow.sunlight_shadow, an older one with
\* bdshadow_sunlight only, none at all
Environments ==
    {[api |-> "submodule", bd_preprocess |-> TRUE, version |-> "0.3.5"],
     [api |-> "top_level", bd_preprocess |-> FALSE, version |-> "unknown"],
     [api |-> "missing", bd_preprocess |-> FALSE, version |-> "unknown"]}

\* what the building source may answer with
FetchedFeatures ==
    {[geometry |-> None, properties |-> [height |-> Num(1)]],
     [geometry |-> Polygon({<<0, 0>>}), properties |-> [height |-> Num(1)]],
     [geometry |-> Polygon({FarCell}), properties |-> [levels |-> Num(2)]]}

FetchOutcomes ==
    {[ok |-> FALSE, data |-> <<>>], [ok |-> TRUE, data |-> <<>>]}
        \cup {[ok |-> TRUE, data |-> [features |-> fs]] :
                 fs \in UNION {[1..n -> FetchedFeatures] : n \in 0..MaxFeatures}}

\* what the generator may answer with
GeneratedShadows ==
    {[columns |-> {"geometry"}, rows |-> r] :
        r \in {<<>>, <<ShadowRow({<<0, 0>>})>>, <<ShadowRow({c \in Cells : c[1] = 0})>>,
               <<ShadowRow({<<0, 0>>}), ShadowRow(Cells)>>}}

RequestIds == {"pybdshadow-0a1b2c3d4e"}

InitRequest ==
    /\ env \in Environments
    /\ run \in {NewRun(e, p) : e \in {"cli", "server"}, p \in Payloads}
    /\ twin = <<>>
    /\ IdleHeight /\ IdleRecords /\ IdleAnalytics /\ IdleServer

Begin ==
    /\ run.pc = "start"
    /\ run' = begin(run)
    /\ UNCHANGED <<env, twin, heightVars, recordVars, analyticsVars, serverVars>>

FetchReturns ==
    /\ run.pc = "fetching"
    /\ \E outcome \in FetchOutcomes : run' = after_fetch(run, env, outcome)
    /\ UNCHANGED <<env, twin, heightVars, recordVars, analyticsVars, serverVars>>

GeneratorReturns ==
    /\ run.pc = "generating"
    /\ \E shadows_gdf \in GeneratedShadows, request_id \in RequestIds :
          run' = after_generate(run, env, shadows_gdf, request_id)
    /\ UNCHANGED <<env, twin, heightVars, recordVars, analyticsVars, serverVars>>

NextRequest == Begin \/ FetchReturns \/ GeneratorReturns

SpecRequest == InitRequest /\ [][NextRequest]_vars

(***************************************************************************)
(* The same request made at both entry points: run is main of             *)
(* service_cli, twin is _run_single of engine_server, and the building     *)
(* source and the generator give both the same answers.                    *)
(***************************************************************************)
\* uuid.uuid4().hex[:10] of each response
MirrorIds == {"pybdshadow-0a1b2c3d4e", "pybdshadow-f9e8d7c6b5"}

InitMirror ==
    /\ env \in Environments
    /\ \E p \in Payloads : run = NewRun("cli", p) /\ twin = NewRun("server", p)
    /\ IdleHeight /\ IdleRecords /\ IdleAnalytics /\ IdleServer

MirrorBegin ==
    /\ run.pc = "start"
    /\ run' = begin(run)
    /\ twin' = begin(twin)
    /\ UNCHANGED <<env, heightVars, recordVars, analyticsVars, serverVars>>

MirrorFetchReturns ==
    /\ run.pc = "fetching" \/ twin.pc = "fetching"
    /\ \E outcome \in FetchOutcomes :
          /\ run' = IF run.pc = "fetching" THEN after_fetch(run, env, outcome) ELSE run
          /\ twin' = IF twin.pc = "fetching" THEN after_fetch(twin, env, outcome)
                     ELSE twin
    /\ UNCHANGED <<env, heightVars, recordVars, analyticsVars, serverVars>>

MirrorGeneratorReturns ==
    /\ run.pc = "generating" \/ twin.pc = "generating"
    /\ \E shadows_gdf \in GeneratedShadows, id \in MirrorIds, twin_id \in MirrorIds :
          /\ run' = IF run.pc = "generating"
                    THEN after_generate(run, env, shadows_gdf, id) ELSE run
          /\ twin' = IF twin.pc = "generating"
                     THEN after_generate(twin, env, shadows_gdf, twin_id) ELSE twin
    /\ UNCHANGED <<env, heightVars, recordVars, analyticsVars, serverVars>>

NextMirror == MirrorBegin \/ MirrorFetchReturns \/ MirrorGeneratorReturns

SpecMirror == InitMirror /\ [][NextMirror]_vars

(***************************************************************************)
(* engine_server: the process pool, the /shadow handler, shutdown_event.   *)
(* A request is [state, payload, future, result, response, inputs]: the    *)
(* state of its handler thread, the state of the future pool.submit gave   *)
(* it, the finished run, the HTTP response sent, and (history) what the    *)
(* building source and the generator answered to it.                       *)
(***************************************************************************)
\* the WORKERS setting (line 53)
POOL_SIZE == 2

NoRequest ==
    [state |-> "absent", payload |-> <<>>, future |-> "none", result |-> None,
     response |-> None, inputs |-> <<>>]

IdleWorker == [req |-> 0, run |-> None]

\* HTTPException(status_code=..., detail=str(exc))
error_response(status, detail) == [status |-> status, detail |-> detail]

success_response(body) == [status |-> 200, body |-> body]

ServerPayloads ==
    {[bbox |-> [west |-> 0, south |-> 0, east |-> MaxCoord, north |-> MaxCoord],
      timestamp |-> Text("2025-01-01T03:00:00")] @@ g :
        g \in {<<>>, [geometry |-> Polygon({})], [geometry |-> [foo |-> Num(1)]],
               [geometry |-> Str(<<"a", "b", "c">>)]}}

ServerFetchOutcomes ==
    {[ok |-> FALSE, data |-> <<>>],
     [ok |-> TRUE,
      data |-> [features |-> <<[geometry |-> Polygon({<<0, 0>>}),
                                properties |-> [height |-> Num(1)]]>>]]}

ServerShadows == {[columns |-> {"geometry"}, rows |-> <<ShadowRow({<<0, 0>>})>>]}

InitServer ==
    /\ env \in Environments
    /\ requests = [r \in 1..MaxRequests |-> NoRequest]
    /\ queue = <<>>
    /\ workers = [w \in 1..POOL_SIZE |-> IdleWorker]
    /\ shutdown = FALSE
    /\ IdleHeight /\ IdleRecords /\ IdleAnalytics /\ IdleRequest

otherVars == <<env, heightVars, recordVars, analyticsVars, run, twin>>

\* mutant: the worker reads the payload of the latest request to arrive
submitted_payload_latest(reqs, r) ==
    reqs[CHOOSE q \in DOMAIN reqs :
            /\ reqs[q].state # "absent"
            /\ \A p \in DOMAIN reqs : reqs[p].state # "absent" => p <= q].payload

\* the argument pool.submit(_run_single, payload) pickles for the worker
submitted_payload(reqs, r) == reqs[r].payload

\* POST /shadow: the body is validated, then shadow submits the request to
\* the pool and blocks on future.result()
Arrive ==
    \E r \in 1..MaxRequests, payload \in ServerPayloads :
        /\ requests[r].state = "absent"
        /\ \A q \in 1..(r - 1) : requests[q].state # "absent"
        /\ IF ShadowRequest_error(payload) # ""
           THEN /\ requests' = [requests EXCEPT
                       ![r].state = "responded", ![r].payload = payload,
                       ![r].response = error_response(422, ShadowRequest_error(payload))]
                /\ UNCHANGED queue
           ELSE IF shutdown
           THEN /\ requests' = [requests EXCEPT
                       ![r].state = "responded", ![r].payload = payload,
                       ![r].response =
                           error_response(500, "cannot schedule new futures after shutdown")]
                /\ UNCHANGED queue
           ELSE /\ requests' = [requests EXCEPT
                       ![r].state = "waiting", ![r].payload = payload,
                       ![r].future = "pending"]
                /\ queue' = Append(queue, r)
        /\ UNCHANGED <<workers, shutdown, otherVars>>

\* worker w is at new_run: a run that has ended resolves its future and
\* frees the worker
Advance(w, new_run, input) ==
    LET r == workers[w].req
    IN  IF new_run.pc \in {"done", "failed"}
        THEN /\ requests' = [requests EXCEPT ![r].future = "finished",
                                             ![r].result = new_run,
                                             ![r].inputs = @ \o input]
             /\ workers' = [workers EXCEPT ![w] = IdleWorker]
        ELSE /\ requests' = [requests EXCEPT ![r].inputs = @ \o input]
             /\ workers' = [workers EXCEPT ![w].run = new_run]

\* mutant: a worker is given work whether it is idle or not
CanTake_busy(w) == queue # <<>>

\* an idle worker process takes the oldest pending work item
CanTake(w) == workers[w].req = 0 /\ queue # <<>>

\* the worker starts _run_single on the request it took
Dispatch(w) ==
    /\ CanTake(w)
    /\ LET r == Head(queue)
           new_run == begin(NewRun("server", submitted_payload(requests, r)))
       IN  /\ requests' = [requests EXCEPT ![r].future = "running"]
           /\ workers' = [workers EXCEPT ![w] = [req |-> r, run |-> new_run]]
    /\ queue' = Tail(queue)
    /\ UNCHANGED <<shutdown, otherVars>>

WorkerFetchReturns(w) ==
    /\ workers[w].req # 0
    /\ workers[w].run.pc = "fetching"
    /\ \E outcome \in ServerFetchOutcomes :
          \E new_run \in {after_fetch(workers[w].run, env, outcome)} :
              Advance(w, new_run, <<outcome>>)
    /\ UNCHANGED <<queue, shutdown, otherVars>>

WorkerGeneratorReturns(w) ==
    /\ workers[w].req # 0
    /\ workers[w].run.pc = "generating"
    /\ \E shadows_gdf \in ServerShadows, request_id \in RequestIds :
          \E new_run \in {after_generate(workers[w].run, env, shadows_gdf, request_id)} :
              Advance(w, new_run, <<[shadows |-> shadows_gdf, request_id |-> request_id]>>)
    /\ UNCHANGED <<queue, shutdown, otherVars>>

\* mutant: shadow answers 200 with whatever the future holds
response_of_unguarded(request) ==
    success_response(IF request.future = "cancelled" THEN None
                     ELSE request.result.response)

\* what shadow returns or raises once future.result() does; the detail of
\* an error is str(exc), which is empty for a CancelledError
response_of(request) ==
    IF request.future = "cancelled" THEN error_response(500, "")
    ELSE IF request.result.pc = "failed" THEN error_response(500, request.result.error)
    ELSE success_response(request.result.response)

Respond(r) ==
    /\ requests[r].state = "waiting"
    /\ requests[r].future \in {"finished", "cancelled"}
    /\ requests' = [requests EXCEPT ![r].state = "responded",
                                    ![r].response = response_of(requests[r])]
    /\ UNCHANGED <<queue, workers, shutdown, otherVars>>

\* pool.shutdown(wait=False, cancel_futures=True): pending futures are
\* cancelled, running ones are left to run
shutdown_event ==
    /\ ~shutdown
    /\ shutdown' = TRUE
    /\ requests' = [r \in 1..MaxRequests |->
                       IF requests[r].future = "pending"
                       THEN [requests[r] EXCEPT !.future = "cancelled"]
                       ELSE requests[r]]
    /\ queue' = <<>>
    /\ UNCHANGED <<workers, otherVars>>

\* the server is going down: the connection of a waiting request is closed
\* and its handler's answer, if any, goes nowhere
Drop(r) ==
    /\ shutdown
    /\ requests[r].state = "waiting"
    /\ requests' = [requests EXCEPT ![r].state = "dropped"]
    /\ UNCHANGED <<queue, workers, shutdown, otherVars>>

\* the server is going down: a worker process ends in the middle of a run,
\* whose future is never resolved
Abandon(w) ==
    /\ shutdown
    /\ workers[w].req # 0
    /\ workers' = [workers EXCEPT ![w] = IdleWorker]
    /\ UNCHANGED <<requests, queue, shutdown, otherVars>>

NextServing ==
    \/ Arrive
    \/ \E w \in 1..POOL_SIZE : Dispatch(w)
    \/ \E w \in 1..POOL_SIZE : WorkerFetchReturns(w)
    \/ \E w \in 1..POOL_SIZE : WorkerGeneratorReturns(w)
    \/ \E r \in 1..MaxRequests : Respond(r)

NextServer ==
    \/ NextServing
    \/ shutdown_event
    \/ \E r \in 1..MaxRequests : Drop(r)
    \/ \E w \in 1..POOL_SIZE : Abandon(w)

\* the server with its shutdown
SpecServer == InitServer /\ [][NextServer]_vars

\* the server while it is up: worker processes and handler threads are
\* scheduled, and the building source and the generator answer, so a step
\* that can be taken is not put off for ever
Fairness == WF_vars(NextServing)

SpecServing == InitServer /\ [][NextServing]_vars /\ Fairness

(***************************************************************************)
(* C5.  extract_height returns the value of the first key, in the order    *)
(* height, HEIGHT, height_mean, levels, whose value is present and a       *)
(* number (levels times 3.5); a missing or non-numeric value is skipped,   *)
(* never read as zero; without such a key the result is 12.0.              *)
(***************************************************************************)
IsNumber(value) ==
    \/ value.t = "num"
    \/ value.t = "str" /\ Len(value.s) > 0
                       /\ \A i \in 1..Len(value.s) : IsDigit(value.s[i])

Qualifying(p) ==
    {i \in 1..4 : HEIGHT_KEYS[i] \in DOMAIN p /\ IsNumber(p[HEIGHT_KEYS[i]])}

FirstQualifying(p) == CHOOSE i \in Qualifying(p) : \A j \in Qualifying(p) : i <= j

\* the number a value denotes, in tenths
Metres10(value) ==
    IF value.t = "num" THEN 10 * value.v ELSE 10 * DecimalValue(value.s)

C5_FirstNumericKeyWins ==
    height_out.done =>
        IF Qualifying(attrs_in) = {} THEN height_out.value = 120
        ELSE LET i == FirstQualifying(attrs_in)
                 v == Metres10(attrs_in[HEIGHT_KEYS[i]])
             IN  height_out.value = IF i = 4 THEN (v * 7) \div 2 ELSE v

\* a call where a non-numeric height is skipped and levels decides
C5_Witness ==
    /\ height_out.done
    /\ "height" \in DOMAIN attrs_in /\ ~IsNumber(attrs_in["height"])
    /\ attrs_in["height"] # None
    /\ Qualifying(attrs_in) = {4}
    /\ height_out.value = 35

(***************************************************************************)
(* C6.  Every building record handed to the shadow generator carries, in   *)
(* the height column the generator reads, extract_height of that record's  *)
(* own attributes.                                                         *)
(***************************************************************************)
\* a column cell that is the number tenths / 10
IsHeight(value, tenths) ==
    \/ value.t = "num" /\ 10 * value.v = tenths
    \/ value.t = "float" /\ value.tenths = tenths

C6_HandedHeightIsResolved ==
    frame_out.done =>
        \A i \in 1..Len(frame_out.frame.rows) :
            LET row == frame_out.frame.rows[i]
            IN  /\ "height" \in frame_out.frame.columns
                /\ IsHeight(row.attrs["height"], extract_height(row.origin))

(***************************************************************************)
(* C1.  For a bounding box with east <= west or north <= south, coverage   *)
(* reports bboxAreaSqm = shadowAreaSqm = coveragePercent = 0 and sampling  *)
(* reports no point and sampleCount = 0.                                   *)
(***************************************************************************)
Degenerate(bounds) == bounds.east <= bounds.west \/ bounds.north <= bounds.south

C1_DegenerateBoxReportsZero ==
    Degenerate(bounds_in) =>
        /\ coverage_out.done =>
              /\ coverage_out.stats.bbox_area_sqm = 0
              /\ coverage_out.stats.shadow_area_sqm = 0
              /\ coverage_out.stats.coverage_percent = <<0, 1>>
        /\ samples_out.done =>
              /\ samples_out.result.features = <<>>
              /\ samples_out.result.metrics.sampleCount = 0

(***************************************************************************)
(* C4.  For a bounding box with positive span on both axes, analyse_samples *)
(* uses N = min(25, max(3, gridSize)), returns exactly N*N points and       *)
(* reports sampleCount = N*N: 1, 2, 3, 25, 100 give 9, 9, 9, 625, 625.      *)
(***************************************************************************)
ExpectedCount(gridSize) ==
    CASE gridSize <= 3 -> 9
      [] gridSize >= 25 -> 625
      [] OTHER -> gridSize * gridSize

C4_SampleCountIsClampedSquare ==
    (samples_out.done /\ ~Degenerate(bounds_in)) =>
        /\ Len(samples_out.result.features) = ExpectedCount(grid_in)
        /\ samples_out.result.metrics.sampleCount = ExpectedCount(grid_in)

\* a call with gridSize 100 that returned 625 points
C4_Witness ==
    /\ samples_out.done /\ ~Degenerate(bounds_in)
    /\ grid_in = 100
    /\ Len(samples_out.result.features) = 625

(***************************************************************************)
(* C2.  A request whose filter geometry is neither null, a Feature, a      *)
(* FeatureCollection nor a raw geometry is rejected (by the unsupported-   *)
(* geometry error, or by the server's validation of the body) and the      *)
(* building source is never called for it, from main and from _run_single. *)
(***************************************************************************)
UnsupportedGeometry(payload) ==
    /\ "geometry" \in DOMAIN payload
    /\ payload["geometry"] # None
    /\ ~IsFeature(payload["geometry"])
    /\ ~IsFeatureCollection(payload["geometry"])
    /\ ~IsRawGeometry(payload["geometry"])

C2_UnsupportedGeometryRejectedBeforeFetch ==
    UnsupportedGeometry(run.payload) =>
        /\ run.fetch_calls = 0
        /\ run.pc # "start" =>
              /\ run.pc = "failed"
              /\ run.error \in {"UnsupportedGeometry", "ValidationError"}

(***************************************************************************)
(* C3.  In every successful response avgShadowPercent is the               *)
(* coveragePercent of calculate_shadow_coverage for the request's bbox and *)
(* shadow layer, and coverageSource is "area".                             *)
(***************************************************************************)
C3_ReportedPercentIsAreaCoverage ==
    run.pc = "done" =>
        /\ run.response.metrics.avgShadowPercent = run.coverage_stats.coverage_percent
        /\ run.coverage_stats = calculate_shadow_coverage(run.params.bbox, run.shadows)
        /\ run.response.metrics.coverageSource = "area"

\* 100 * shadowHits / sampleCount of the sample points of a response
GridRatio(response) ==
    LET points == response.data.sunlight
    IN  Rat(100 * Cardinality({k \in 1..Len(points) : points[k].hoursOfSun = 3}),
            Len(points))

\* a response of the server whose grid ratio is not its area coverage
C3_Witness ==
    /\ run.pc = "done" /\ run.entry = "server"
    /\ run.response.data.sunlight # <<>>
    /\ GridRatio(run.response) # run.response.metrics.avgShadowPercent
    /\ run.response.metrics.avgShadowPercent # <<0, 1>>

(***************************************************************************)
(* C7.  When the building set is empty after normalisation and filtering,  *)
(* the request ends with the no-buildings error: the generator is not      *)
(* invoked, the building source was called exactly once, and there is no   *)
(* success response.                                                       *)
(***************************************************************************)
C7_NoBuildingsIsTerminal ==
    (run.buildings # None /\ empty(run.buildings)) =>
        /\ run.pc = "failed" /\ run.error = "NoBuildings"
        /\ run.generator_calls = 0
        /\ run.fetch_calls = 1
        /\ run.response = None

\* buildings were fetched and the filter geometry left none of them
C7_Witness ==
    /\ run.pc = "failed" /\ run.error = "NoBuildings"
    /\ run.params.geometry # None
    /\ run.buildings.columns # {}
    /\ run.fetch_calls = 1 /\ run.generator_calls = 0

(***************************************************************************)
(* C8.  On the server, whatever the interleaving of requests: a request    *)
(* whose run fails is answered with an error response and nothing else,    *)
(* never with a partly filled success; every answer is the one the request *)
(* gets when it is run alone on the same answers of the building source    *)
(* and the generator; and every request that waits is answered.            *)
(***************************************************************************)
Alone(request) ==
    LET inputs == request.inputs
        r0 == begin(NewRun("server", request.payload))
        r1 == IF Len(inputs) >= 1 /\ r0.pc = "fetching"
              THEN after_fetch(r0, env, inputs[1]) ELSE r0
    IN  IF Len(inputs) >= 2 /\ r1.pc = "generating"
        THEN after_generate(r1, env, inputs[2].shadows, inputs[2].request_id)
        ELSE r1

IsErrorResponse(response) ==
    /\ DOMAIN response = {"status", "detail"}
    /\ response.status >= 400

IsCompleteSuccess(response) ==
    /\ DOMAIN response = {"status", "body"}
    /\ response.status = 200
    /\ DOMAIN response.body = {"requestId", "data", "metrics", "metadata"}
    /\ DOMAIN response.body.data = {"shadows", "sunlight", "heatmap", "buildings"}
    /\ DOMAIN response.body.metrics =
          {"sampleCount", "avgShadowPercent", "avgSunlightHours", "engineLatencyMs",
           "engineVersion", "shadowAreaSqm", "bboxAreaSqm", "coverageSource"}
    /\ DOMAIN response.body.metadata = {"timezone", "backendUrl", "maxFeatures"}

C8_AnsweredAsAlone ==
    \A r \in 1..MaxRequests :
        (requests[r].state = "responded" /\ requests[r].future = "finished") =>
            LET alone == Alone(requests[r])
                response == requests[r].response
            IN  /\ alone.pc \in {"done", "failed"}
                /\ alone.pc = "failed" =>
                      /\ IsErrorResponse(response)
                      /\ response.detail = alone.error
                      /\ response.detail # ""
                /\ alone.pc = "done" =>
                      /\ IsCompleteSuccess(response)
                      /\ response.body = alone.response

C8_FailureIsIsolated ==
    /\ []C8_AnsweredAsAlone
    /\ \A r \in 1..MaxRequests :
          (requests[r].state = "waiting") ~> (requests[r].state = "responded")

\* a request failed and was answered with its error, and another one, which
\* was submitted with it, got its complete success
C8_Witness ==
    \E r, q \in 1..MaxRequests :
        /\ r # q
        /\ requests[r].state = "responded" /\ requests[r].future = "finished"
        /\ requests[r].result.pc = "failed"
        /\ IsErrorResponse(requests[r].response)
        /\ requests[q].state = "responded" /\ requests[q].future = "finished"
        /\ requests[q].result.pc = "done"
        /\ IsCompleteSuccess(requests[q].response)
        /\ requests[q].payload # requests[r].payload

(***************************************************************************)
(* C9.  While the server is up: at most POOL_SIZE requests are being run;  *)
(* a request that is being run is on exactly one worker; a request that    *)
(* arrives while every worker is busy waits in the queue and is not        *)
(* rejected; and every request in the queue is given a worker.             *)
(***************************************************************************)
Running == {r \in 1..MaxRequests : requests[r].future = "running"}

WorkersOf(r) == {w \in 1..POOL_SIZE : workers[w].req = r}

InQueue(r) == \E k \in 1..Len(queue) : queue[k] = r

C9_PoolIsBounded ==
    /\ Cardinality(Running) <= POOL_SIZE
    /\ \A r \in Running : Cardinality(WorkersOf(r)) = 1
    /\ \A r \in 1..MaxRequests :
          requests[r].future = "pending" =>
              /\ Cardinality({k \in 1..Len(queue) : queue[k] = r}) = 1
              /\ requests[r].state = "waiting"
              /\ requests[r].response = None

C9_BoundedPoolServesQueue ==
    /\ []C9_PoolIsBounded
    /\ \A r \in 1..MaxRequests :
          InQueue(r) ~> (requests[r].future \in {"running", "finished"})

\* every worker is busy and a request waits in the queue
C9_Witness ==
    /\ \A w \in 1..POOL_SIZE : workers[w].req # 0
    /\ Cardinality(Running) = POOL_SIZE
    /\ queue # <<>>
    /\ requests[Head(queue)].state = "waiting"

(***************************************************************************)
(* C10.  After shutdown_event, a request that was queued or in flight has  *)
(* a complete success response, an error response, or no response at all;  *)
(* no response carries only part of requestId, data, metrics, metadata.    *)
(***************************************************************************)
C10_NoTornResponse ==
    shutdown =>
        \A r \in 1..MaxRequests :
            requests[r].state # "absent" =>
                LET response == requests[r].response
                IN  /\ \/ response = None
                       \/ IsErrorResponse(response)
                       \/ IsCompleteSuccess(response)
                    /\ requests[r].state = "dropped" => response = None
                    /\ requests[r].state = "responded" => response # None

\* after shutdown: one request in flight completed, one queued request was
\* cancelled and answered with an error, one run was abandoned
C10_Witness ==
    /\ shutdown
    /\ \E r, q, a \in 1..MaxRequests :
          /\ requests[r].future = "finished"
          /\ requests[r].response # None /\ IsCompleteSuccess(requests[r].response)
          /\ requests[q].future = "cancelled"
          /\ requests[q].response # None /\ IsErrorResponse(requests[q].response)
          /\ requests[a].future = "running" /\ WorkersOf(a) = {}
          /\ requests[a].response = None

(***************************************************************************)
(* C11.  For each of backend URL, timezone, max feature count and grid     *)
(* size, the value a request runs with is the request's own value when the *)
(* request supplies one (the grid size clamped to [3, 25]), and the        *)
(* service default only when the request omits the field.                  *)
(***************************************************************************)
Supplies(payload, key) == key \in DOMAIN payload /\ payload[key] # None

SuppliesGrid(payload) ==
    /\ Supplies(payload, "samples")
    /\ Supplies(payload["samples"], "grid")

\* the grid size the request asks for, or the service default
OwnGrid(payload) ==
    IF SuppliesGrid(payload) THEN payload["samples"]["grid"].v ELSE DEFAULT_GRID

PositiveSpan(bounds) == bounds.east > bounds.west /\ bounds.north > bounds.south

C11_ExplicitValuesOverrideDefaults ==
    run # <<>> /\ run.params # None =>
        LET payload == run.payload
            params == run.params
        IN  /\ params.timezone =
                  IF Supplies(payload, "timezone") THEN payload["timezone"].text
                  ELSE "Asia/Hong_Kong"
            /\ params.max_features =
                  IF Supplies(payload, "maxFeatures") THEN payload["maxFeatures"].v
                  ELSE DEFAULT_MAX_FEATURES
            /\ rstrip_slash(params.backend_url) =
                  IF Supplies(payload, "backendUrl")
                  THEN rstrip_slash(payload["backendUrl"].text)
                  ELSE "http://localhost:3500"
            /\ (run.pc = "done" /\ PositiveSpan(params.bbox)) =>
                  run.samples.metrics.sampleCount =
                      clamp_grid(OwnGrid(payload)) * clamp_grid(OwnGrid(payload))

(***************************************************************************)
(* C12.  The server mirrors the CLI: for the same payload (filter geometry *)
(* null, a Feature, a FeatureCollection or a raw geometry) and the same    *)
(* answers of the building source and the generator, main and _run_single  *)
(* both fail, or both succeed with responses equal in every field but      *)
(* requestId.                                                              *)
(***************************************************************************)
Mirrored(payload) ==
    /\ "backend_url" \notin DOMAIN payload
    /\ "geometry" \in DOMAIN payload =>
          payload["geometry"] \in SupportedGeometryPayloads

Ended(r) == r.pc \in {"done", "failed"}

WithoutId(response) == [response EXCEPT !.requestId = ""]

C12_ServerMirrorsCli ==
    (Ended(run) /\ Ended(twin) /\ Mirrored(run.payload)) =>
        /\ run.pc = twin.pc
        /\ run.pc = "done" => WithoutId(run.response) = WithoutId(twin.response)

====
